---- MODULE Spec2Model ----
(***************************************************************************)
(* TerminalViewport (packages/ui/src/components/terminal/                  *)
(* TerminalViewport.tsx): the write queue, the chunk reconciliation effect *)
(* and the effects that reset them (session change, clear, re-mount), the  *)
(* resize coordinator (fitTerminal) and the kinetic scroll engine          *)
(* (setupTouchScroll).                                                     *)
(*                                                                         *)
(* A handler of the component runs to completion on the single UI thread,  *)
(* so each action below is one commit of React effects, one imperative     *)
(* call, or one callback run by the event loop.  The handlers are written  *)
(* as operators over a record of the component's refs, so that a handler   *)
(* calling another is operator application, as in the source.              *)
(*                                                                         *)
(* Three specifications share the variables and the handlers: Spec (the    *)
(* store changes, the surface is written to), SpecFit (the container is    *)
(* resized) and SpecScroll (gestures and animation frames).                *)
(***************************************************************************)
EXTENDS Integers, Sequences, FiniteSets

\* ---------------------------------------------------------------- bounds
\* Longest chunk sequence the store holds.
MaxChunks == 3
\* Largest chunk id the store hands out within one session.
MaxId == 3
\* firstChunkIdRef's null; chunk ids are >= 1.
Null == 0

\* The sessions the parent switches between.
SessionKeys == {"s1", "s2"}

\* A chunk's data is a string.  The component never looks into it beyond
\* testing it for emptiness, so a chunk's data is either the empty string or
\* one character that names the chunk (its session and id): a lost, repeated
\* or misplaced chunk then shows in what the surface was handed.
Data(key, id) == {<<>>, <<<<key, id>>>>}

VARIABLES
    sessionKey,      \* the sessionKey prop, as last committed
    chunks,          \* the chunks prop, as last committed
    nextChunkId,     \* the store's id counter for the current session
    terminalRef,     \* TRUE while terminalRef.current holds a Terminal
    writeQueue,      \* writeQueueRef.current
    isWriting,       \* isWritingRef.current
    processedCount,  \* processedCountRef.current
    firstChunkId,    \* firstChunkIdRef.current
    written,         \* the text handed to term.write since the surface's
                     \* last reset() or creation: the payloads, in issue
                     \* order, one after the other
    enqueued,        \* the text handed to enqueueWrite since then, likewise
    inflight,        \* writes handed to the live surface since its last
                     \* reset() whose callback is pending: 0, 1, or 2 for
                     \* two or more
    stale,           \* TRUE while the callback of a write abandoned by a
                     \* reset() or by the surface's disposal may still fire
    timers,          \* pending window.setTimeout(consumeNext, 0)
    container,       \* containerRef.current.getBoundingClientRect():
                     \* <<width, height>> in pixels
    fitThrows,       \* TRUE while the surface is in a condition in which
                     \* fitAddon.fit() throws
    dims,            \* <<terminal.cols, terminal.rows>>
    ev               \* what the last handler did (history)

\* The component's refs and its rendering surface.
tvars == <<sessionKey, chunks, nextChunkId, terminalRef, writeQueue, isWriting,
           processedCount, firstChunkId, written, enqueued, inflight, stale,
           timers, container, fitThrows, dims, ev>>

VARIABLES
    enableTouchScroll,      \* the enableTouchScroll prop, as last committed
    supportsPointerEvents,  \* 'PointerEvent' in window
    touchScrollCleanupRef,  \* TRUE while touchScrollCleanupRef.current holds
                            \* a cleanup, that is, the gesture listeners of
                            \* the current closure are on the container
    state,                  \* the closure's state object: lastY, lastTime,
                            \* velocity, rafId and (pointer path) pointerId
    viewport,               \* the .xterm-viewport element: scrollTop,
                            \* scrollHeight, clientHeight
    frames,                 \* handles of the animation frames requested by
                            \* the current closure and neither run nor
                            \* cancelled
    orphans,                \* the closures that were cleaned up with frames
                            \* still requested: their state and frames
    capture,                \* pointer ids captured by the container
    pointers,               \* touch pointer ids that are down (pointer path)
    touches,                \* fingers on the surface (legacy touch path)
    interval,               \* milliseconds from one move sample to the
                            \* next and from one animation frame to the
                            \* next, on this device
    presses,                \* presses so far (bounded by MaxPresses)
    moves,                  \* move samples so far (bounded by MaxMoves)
    decay,                  \* the last release that began an inertial loop:
                            \* its velocity, the frames run since (history)
    sv,                     \* what the last gesture handler did (history)
    twin                    \* a second engine, of the legacy touch path,
                            \* over a viewport of its own: its state, its
                            \* viewport, the frames it requested and the
                            \* offsets its last handler assigned

\* The kinetic scroll engine and its environment.
svars == <<enableTouchScroll, supportsPointerEvents, touchScrollCleanupRef,
           state, viewport, frames, orphans, capture, pointers, touches,
           interval, presses, moves, decay, sv, twin>>

VARIABLES
    flow,            \* GitHubSettings' flow state: null, or the device code
                     \* of the DeviceFlowStartResponse it holds
    pollIntervalMs,  \* the pollIntervalMs state: null or milliseconds
    pollTimerRef,    \* pollTimerRef.current: null or an interval's handle
    pollTimers,      \* the window's active intervals: handle, the device
                     \* code of the callback's closure, its period
    polls,           \* per device code, the pollOnce requests whose
                     \* response is pending
    isBusy,          \* the isBusy state
    awaiting,        \* the request startConnect or disconnect awaits
    connected,       \* status.connected of the auth store
    nextCode,        \* the device code the server hands out next
    ended,           \* device codes for which a terminal poll result has
                     \* been handled (history)
    gh               \* what the last GitHubSettings handler did (history)

\* GitHubSettings: the device flow and its polling.
hvars == <<flow, pollIntervalMs, pollTimerRef, pollTimers, polls, isBusy,
           awaiting, connected, nextCode, ended, gh>>

\* What the handlers of one engine leave alone.
xvars == <<twin, hvars>>

vars == <<tvars, svars, hvars>>

\* ------------------------------------------------------------- helpers
RECURSIVE Flatten(_)
Flatten(ss) == IF ss = <<>> THEN <<>> ELSE Head(ss) \o Flatten(Tail(ss))

\* pending.map((chunk) => chunk.data).join('')
JoinData(cs) == Flatten([i \in 1..Len(cs) |-> cs[i].data])

\* chunks.slice(n)
Slice(cs, n) == SubSeq(cs, n + 1, Len(cs))

Min(a, b) == IF a < b THEN a ELSE b

RECURSIVE IsSubseq(_, _)
IsSubseq(a, b) ==
    IF a = <<>> THEN TRUE
    ELSE IF b = <<>> THEN FALSE
    ELSE IF Head(a) = Head(b) THEN IsSubseq(Tail(a), Tail(b))
    ELSE IsSubseq(a, Tail(b))

\* The refs and the surface as one record, plus the calls made so far by
\* the running handler: terminal.reset() (resets), enqueueWrite (enq),
\* term.write (writes), fitTerminal (fits), fitAddon.fit() (fitted), the
\* resize handler (resized, the <<cols, rows>> it was given), new Terminal
\* (created) and terminal.dispose() (disposed); then the scroll engine's
\* closure and viewport, with the offsets assigned to viewport.scrollTop
\* (assigned), the frames cancelled (cancels) and requested (requests),
\* scrollByPixels' result (moved), preventDefault (prevented), and the
\* deltaY of a move sample that was measured against a last position
\* (sampled, deltaY).
Cur ==
    [terminalRef |-> terminalRef, writeQueue |-> writeQueue,
     isWriting |-> isWriting, processedCount |-> processedCount,
     firstChunkId |-> firstChunkId, written |-> written,
     enqueued |-> enqueued, inflight |-> inflight, stale |-> stale,
     timers |-> timers,
     container |-> container, fitThrows |-> fitThrows, dims |-> dims,
     resets |-> 0, enq |-> <<>>, writes |-> <<>>, fits |-> 0,
     fitted |-> 0, resized |-> <<>>, created |-> 0, disposed |-> 0,
     enableTouchScroll |-> enableTouchScroll,
     supportsPointerEvents |-> supportsPointerEvents,
     touchScrollCleanupRef |-> touchScrollCleanupRef,
     state |-> state, viewport |-> viewport, frames |-> frames,
     orphans |-> orphans, capture |-> capture,
     assigned |-> <<>>, cancels |-> 0, requests |-> 0, moved |-> FALSE,
     prevented |-> FALSE, sampled |-> FALSE, deltaY |-> 0]

\* ------------------------------------------------- the rendering surface
\* terminal.reset(): the surface forgets what it showed.  The callbacks of
\* the writes it was still working on stay pending.
TermReset(s) ==
    [s EXCEPT !.written = <<>>, !.enqueued = <<>>, !.resets = @ + 1,
              !.inflight = 0, !.stale = (@ \/ s.inflight > 0)]

\* term.write(chunk, callback): the payload is handed over, the callback
\* fires on a later turn.
TermWrite(s, chunk) ==
    [s EXCEPT !.written = @ \o chunk, !.writes = Append(@, chunk),
              !.inflight = Min(@ + 1, 2)]

\* ----------------------------------------------------------- write queue
\* Faulty variant: the busy flag is left for the pending callback to clear.
resetWriteState_keepBusy(s) ==
    [s EXCEPT !.writeQueue = <<>>,
              !.processedCount = 0, !.firstChunkId = Null]

\* Faulty variant: the first observed id outlives the reset.
resetWriteState_keepFirst(s) ==
    [s EXCEPT !.writeQueue = <<>>, !.isWriting = FALSE,
              !.processedCount = 0]

resetWriteState(s) ==
    [s EXCEPT !.writeQueue = <<>>, !.isWriting = FALSE,
              !.processedCount = 0, !.firstChunkId = Null]

\* ----------------------------------------------------- resize coordinator
\* The widths and heights the container is measured at, around the
\* threshold of fitTerminal.
Sizes == {20, 24, 30}

\* fitAddon.fit(): the surface takes the columns and rows that fit the
\* container.  The computation is the addon's; here a cell is 2 pixels wide
\* and 4 high, so that different containers give different counts.
Propose(rect) == <<rect[1] \div 2, rect[2] \div 4>>

\* Faulty variants: the threshold itself is too small to fit; the counts are
\* reported although the fit threw; the counts are read before the fit.
fitTerminal_above(s) ==
    LET c == [s EXCEPT !.fits = @ + 1]
    IN  IF ~s.terminalRef THEN c
        ELSE IF s.container[1] <= 24 \/ s.container[2] <= 24 THEN c
        ELSE IF s.fitThrows THEN [c EXCEPT !.fitted = @ + 1]
        ELSE [c EXCEPT !.fitted = @ + 1, !.dims = Propose(s.container),
                       !.resized = Append(@, Propose(s.container))]
fitTerminal_stale(s) ==
    LET c == [s EXCEPT !.fits = @ + 1]
    IN  IF ~s.terminalRef THEN c
        ELSE IF s.container[1] < 24 \/ s.container[2] < 24 THEN c
        ELSE IF s.fitThrows THEN [c EXCEPT !.fitted = @ + 1]
        ELSE [c EXCEPT !.fitted = @ + 1, !.dims = Propose(s.container),
                       !.resized = Append(@, s.dims)]

\* fitTerminal: nothing without a surface, nothing below 24 pixels either
\* way; otherwise fit() and, if it returned, the resize handler with the
\* surface's counts.  What fit() throws is caught and dropped.
fitTerminal(s) ==
    LET c == [s EXCEPT !.fits = @ + 1]
    IN  IF ~s.terminalRef THEN c
        ELSE IF s.container[1] < 24 \/ s.container[2] < 24 THEN c
        ELSE IF s.fitThrows THEN [c EXCEPT !.fitted = @ + 1]
        ELSE [c EXCEPT !.fitted = @ + 1, !.dims = Propose(s.container),
                       !.resized = Append(@, Propose(s.container))]

consumeNext(s) ==
    IF ~s.terminalRef THEN resetWriteState(s)
    ELSE IF s.writeQueue = <<>> THEN [s EXCEPT !.isWriting = FALSE]
    ELSE TermWrite([s EXCEPT !.writeQueue = Tail(@), !.isWriting = TRUE],
                   Head(s.writeQueue))

flushWriteQueue(s) == IF s.isWriting THEN s ELSE consumeNext(s)

\* Faulty variants of enqueueWrite, against which the properties are tried.
\* A backlog: push the payload and leave the busy flag alone.
enqueueWrite_backlog(s, data) ==
    IF data = <<>> THEN [s EXCEPT !.enq = Append(@, data)]
    ELSE flushWriteQueue([s EXCEPT !.writeQueue = Append(@, data),
                                   !.enq = Append(@, data),
                                   !.enqueued = @ \o data])
\* The payload is dropped while a write is in flight.
enqueueWrite_drop(s, data) ==
    IF data = <<>> THEN [s EXCEPT !.enq = Append(@, data)]
    ELSE IF s.isWriting
         THEN [s EXCEPT !.enq = Append(@, data), !.enqueued = @ \o data]
         ELSE flushWriteQueue([s EXCEPT !.writeQueue = <<data>>,
                                        !.enq = Append(@, data),
                                        !.enqueued = @ \o data])

enqueueWrite(s, data) ==
    IF data = <<>> THEN [s EXCEPT !.enq = Append(@, data)]
    ELSE flushWriteQueue([s EXCEPT !.writeQueue = <<data>>,
                                   !.isWriting = FALSE,
                                   !.enq = Append(@, data),
                                   !.enqueued = @ \o data])

\* The completion callback passed to term.write.
writeCallback(s) ==
    IF s.writeQueue # <<>>
    THEN [s EXCEPT !.isWriting = FALSE, !.timers = @ + 1]
    ELSE [s EXCEPT !.isWriting = FALSE]

\* ---------------------------------------------------- kinetic scroll engine
\* Lengths are in thousandths of a pixel, times in milliseconds, velocities
\* in thousandths of a pixel per millisecond and factors in thousandths;
\* a product or quotient that is not whole is cut towards zero.
baseScrollMultiplier == 2200
maxScrollBoost == 2800
boostDenominator == 25
velocityAlpha == 250
maxVelocity == 8000
minVelocity == 50
deceleration == 15
\* The floor of a sample's or a frame's interval: Math.max(..., 8).
minInterval == 8
\* state.lastY's null; clientY is >= 0.
NoY == 0 - 1

\* Most presses and most move samples in a behaviour, and most inertial
\* loops of one closure with a frame requested.
MaxPresses == 2
MaxMoves == 2
MaxLoops == 2

\* event.clientY of the samples: half a pixel, a pixel, ten and sixty pixels
\* apart; and of the presses.
Ys == {0, 500, 1500, 11500, 61500}
PressYs == {500, 61500}
\* Milliseconds between two samples, and between two frames.
Intervals == {4, 16}
PointerIds == {1, 2}
\* The pointers of pointer events: two fingers and the mouse.
Pointers ==
    {[pointerType |-> "touch", pointerId |-> id] : id \in PointerIds}
        \cup {[pointerType |-> "mouse", pointerId |-> 1]}
\* What the viewport may hold: content shorter than the viewport, or longer.
ScrollHeights == {50000, 400000}
ClientHeight == 100 * 1000

Max(a, b) == IF a > b THEN a ELSE b
Abs(a) == IF a < 0 THEN 0 - a ELSE a
Sign(a) == IF a > 0 THEN 1 ELSE IF a < 0 THEN 0 - 1 ELSE 0
\* a / b cut towards zero (b > 0).
Quot(a, b) == IF a >= 0 THEN a \div b ELSE 0 - ((0 - a) \div b)
\* a * b for a factor b in thousandths.
Times(a, b) == Quot(a * b, 1000)

\* The state object of a closure made by setupTouchScroll.
NewState ==
    [lastY |-> NoY, lastTime |-> "null", velocity |-> 0, rafId |-> Null,
     pointerId |-> Null]

\* In a cleaned-up closure whose viewport element is still the surface's.
NoViewport == [scrollTop |-> 0, scrollHeight |-> 0, clientHeight |-> 0]

getMaxScrollTop(s) == Max(0, s.viewport.scrollHeight - s.viewport.clientHeight)

\* Faulty variant: the offset is assigned as computed.
setScrollTop_unclamped(s, nextScrollTop) ==
    [s EXCEPT !.viewport.scrollTop = nextScrollTop,
              !.assigned = Append(@, nextScrollTop)]

setScrollTop(s, nextScrollTop) ==
    LET next == Max(0, Min(getMaxScrollTop(s), nextScrollTop))
    IN  [s EXCEPT !.viewport.scrollTop = next, !.assigned = Append(@, next)]

\* scrollByPixels; its result (undefined, that is false to the caller, for
\* no delta) is left in the field moved.
scrollByPixels(s, deltaPixels) ==
    IF deltaPixels = 0 THEN [s EXCEPT !.moved = FALSE]
    ELSE LET previous == s.viewport.scrollTop
             s1 == setScrollTop(s, previous + deltaPixels)
         IN  [s1 EXCEPT !.moved = (s1.viewport.scrollTop # previous)]

\* window.cancelAnimationFrame(state.rafId); state.rafId = null
stopKinetic(s) ==
    [s EXCEPT !.frames = @ \ {s.state.rafId}, !.state.rafId = Null,
              !.cancels = @ + (IF s.state.rafId # Null THEN 1 ELSE 0)]

\* state.rafId = window.requestAnimationFrame(step): a handle no live
\* request has.
requestAnimationFrame(s) ==
    LET h == CHOOSE h \in 1..(MaxLoops + 2) :
                 h \notin s.frames /\ h # s.state.rafId
    IN  [s EXCEPT !.frames = @ \cup {h}, !.state.rafId = h,
                  !.requests = @ + 1]

\* Faulty variants of the sample arithmetic: no clamp of the velocity; a
\* sample under a pixel is scrolled and smoothed like any other.
smooth_unclamped(velocity, deltaPixels, dt) ==
    Times(velocity, 1000 - velocityAlpha)
        + Times(Quot(deltaPixels, dt), velocityAlpha)

\* The velocity after a sample: exponential smoothing, then the clamp.
smooth(velocity, deltaPixels, dt) ==
    LET instantVelocity == Quot(deltaPixels, dt)
        v == Times(velocity, 1000 - velocityAlpha)
                 + Times(instantVelocity, velocityAlpha)
    IN  IF v > maxVelocity THEN maxVelocity
        ELSE IF v < 0 - maxVelocity THEN 0 - maxVelocity
        ELSE v

scrollMultiplier(deltaY) ==
    baseScrollMultiplier
        + Min(maxScrollBoost, Quot(Abs(deltaY), boostDenominator))

jitter_none(deltaY) == FALSE
\* Math.abs(deltaY) < 1
jitter(deltaY) == Abs(deltaY) < 1000

\* --- pointer events path
\* Faulty variant of the move handler: any finger's sample is taken.
handlePointerMove_any(s, e) ==
    IF e.pointerType # "touch" THEN s
    ELSE IF s.state.lastY = NoY
    THEN [s EXCEPT !.state.lastY = e.clientY, !.state.lastTime = "t"]
    ELSE LET deltaY == s.state.lastY - e.clientY
             s1 == [s EXCEPT !.state.lastY = e.clientY,
                             !.state.lastTime = "t",
                             !.sampled = TRUE, !.deltaY = deltaY]
             dt == Max(e.dt, minInterval)
             deltaPixels == Times(deltaY, scrollMultiplier(deltaY))
         IN  IF jitter(deltaY) THEN s1
             ELSE scrollByPixels(
                      [s1 EXCEPT !.state.velocity = smooth(@, deltaPixels, dt),
                                 !.prevented = TRUE],
                      deltaPixels)

handlePointerDown(s, e) ==
    IF e.pointerType # "touch" THEN s
    ELSE [stopKinetic(s) EXCEPT !.state.pointerId = e.pointerId,
                                !.state.lastY = e.clientY,
                                !.state.lastTime = "t",
                                !.state.velocity = 0,
                                !.capture = @ \cup {e.pointerId}]

handlePointerMove(s, e) ==
    IF e.pointerType # "touch" \/ s.state.pointerId # e.pointerId THEN s
    ELSE IF s.state.lastY = NoY
    THEN [s EXCEPT !.state.lastY = e.clientY, !.state.lastTime = "t"]
    ELSE LET deltaY == s.state.lastY - e.clientY
             s1 == [s EXCEPT !.state.lastY = e.clientY,
                             !.state.lastTime = "t",
                             !.sampled = TRUE, !.deltaY = deltaY]
             dt == Max(e.dt, minInterval)
             deltaPixels == Times(deltaY, scrollMultiplier(deltaY))
         IN  IF jitter(deltaY) THEN s1
             ELSE scrollByPixels(
                      [s1 EXCEPT !.state.velocity = smooth(@, deltaPixels, dt),
                                 !.prevented = TRUE],
                      deltaPixels)

\* Faulty variant of the frame callback: it goes on at a boundary.
pointerStep_through(s, elapsed) ==
    LET dt == Max(elapsed, minInterval)
        s1 == scrollByPixels(s, s.state.velocity * dt)
        sign == Sign(s.state.velocity)
        nextMagnitude == Max(0, Abs(s.state.velocity) - deceleration * dt)
        s2 == [s1 EXCEPT !.state.velocity = nextMagnitude * sign]
    IN  IF nextMagnitude <= minVelocity
        THEN [stopKinetic(s2) EXCEPT !.state.velocity = 0]
        ELSE requestAnimationFrame(s2)

\* step of handlePointerUp, run elapsed milliseconds after lastFrame.
pointerStep(s, elapsed) ==
    LET dt == Max(elapsed, minInterval)
        s1 == scrollByPixels(s, s.state.velocity * dt)
        sign == Sign(s.state.velocity)
        nextMagnitude == Max(0, Abs(s.state.velocity) - deceleration * dt)
        s2 == [s1 EXCEPT !.state.velocity = nextMagnitude * sign]
    IN  IF ~s1.moved \/ nextMagnitude <= minVelocity
        THEN [stopKinetic(s2) EXCEPT !.state.velocity = 0]
        ELSE requestAnimationFrame(s2)

\* Faulty variant of the release: a slow flick keeps its velocity.
handlePointerUp_coast(s, e) ==
    IF e.pointerType # "touch" \/ s.state.pointerId # e.pointerId THEN s
    ELSE LET s1 == [s EXCEPT !.state.pointerId = Null,
                             !.state.lastY = NoY,
                             !.state.lastTime = "null",
                             !.capture = @ \ {e.pointerId}]
         IN  IF Abs(s1.state.velocity) < minVelocity
             THEN s1
             ELSE requestAnimationFrame(s1)

\* pointerup and pointercancel
handlePointerUp(s, e) ==
    IF e.pointerType # "touch" \/ s.state.pointerId # e.pointerId THEN s
    ELSE LET s1 == [s EXCEPT !.state.pointerId = Null,
                             !.state.lastY = NoY,
                             !.state.lastTime = "null",
                             !.capture = @ \ {e.pointerId}]
         IN  IF Abs(s1.state.velocity) < minVelocity
             THEN [s1 EXCEPT !.state.velocity = 0]
             ELSE requestAnimationFrame(s1)

\* --- legacy touch events path
handleTouchStart(s, e) ==
    IF e.touches # 1 THEN s
    ELSE [stopKinetic(s) EXCEPT !.state.lastY = e.clientY,
                                !.state.lastTime = "t",
                                !.state.velocity = 0]

\* Faulty variant of the legacy move handler: the sample's interval is
\* taken as measured, without the floor of 8 ms.
handleTouchMove_nofloor(s, e) ==
    IF e.touches # 1
    THEN stopKinetic([s EXCEPT !.state.lastY = NoY,
                               !.state.lastTime = "null",
                               !.state.velocity = 0])
    ELSE IF s.state.lastY = NoY
    THEN [s EXCEPT !.state.lastY = e.clientY, !.state.lastTime = "t"]
    ELSE LET deltaY == s.state.lastY - e.clientY
             s1 == [s EXCEPT !.state.lastY = e.clientY,
                             !.state.lastTime = "t",
                             !.sampled = TRUE, !.deltaY = deltaY]
             dt == e.dt
             deltaPixels == Times(deltaY, scrollMultiplier(deltaY))
         IN  IF jitter(deltaY) THEN s1
             ELSE scrollByPixels(
                      [s1 EXCEPT !.state.velocity = smooth(@, deltaPixels, dt),
                                 !.prevented = TRUE],
                      deltaPixels)

handleTouchMove(s, e) ==
    IF e.touches # 1
    THEN stopKinetic([s EXCEPT !.state.lastY = NoY,
                               !.state.lastTime = "null",
                               !.state.velocity = 0])
    ELSE IF s.state.lastY = NoY
    THEN [s EXCEPT !.state.lastY = e.clientY, !.state.lastTime = "t"]
    ELSE LET deltaY == s.state.lastY - e.clientY
             s1 == [s EXCEPT !.state.lastY = e.clientY,
                             !.state.lastTime = "t",
                             !.sampled = TRUE, !.deltaY = deltaY]
             dt == Max(e.dt, minInterval)
             deltaPixels == Times(deltaY, scrollMultiplier(deltaY))
         IN  IF jitter(deltaY) THEN s1
             ELSE scrollByPixels(
                      [s1 EXCEPT !.state.velocity = smooth(@, deltaPixels, dt),
                                 !.prevented = TRUE],
                      deltaPixels)

\* step of handleTouchEnd.
touchStep(s, elapsed) ==
    LET dt == Max(elapsed, minInterval)
        s1 == scrollByPixels(s, s.state.velocity * dt)
        sign == Sign(s.state.velocity)
        nextMagnitude == Max(0, Abs(s.state.velocity) - deceleration * dt)
        s2 == [s1 EXCEPT !.state.velocity = nextMagnitude * sign]
    IN  IF ~s1.moved \/ nextMagnitude <= minVelocity
        THEN [stopKinetic(s2) EXCEPT !.state.velocity = 0]
        ELSE requestAnimationFrame(s2)

\* touchend and touchcancel
handleTouchEnd(s) ==
    LET s1 == [s EXCEPT !.state.lastY = NoY, !.state.lastTime = "null"]
    IN  IF Abs(s1.state.velocity) < minVelocity
        THEN [s1 EXCEPT !.state.velocity = 0]
        ELSE requestAnimationFrame(s1)

\* The frame callback of the closure's path.
step(s, elapsed) ==
    IF s.supportsPointerEvents THEN pointerStep(s, elapsed)
    ELSE touchStep(s, elapsed)

\* --- setup and cleanup
\* touchScrollCleanupRef.current?.(); touchScrollCleanupRef.current = null.
\* The cleanup stops the loop state.rafId names and takes the listeners
\* off.  The closure is garbage from then on, unless a frame it requested
\* is still to run: that frame's callback keeps the closure's state and its
\* viewport element.
touchScrollCleanup(s) ==
    IF ~s.touchScrollCleanupRef THEN s
    ELSE LET s1 == stopKinetic(s)
         IN  [s1 EXCEPT !.touchScrollCleanupRef = FALSE,
                        !.orphans = IF s1.frames = {} THEN @
                                    ELSE Append(@, [state |-> s1.state,
                                                    frames |-> s1.frames,
                                                    disposed |-> FALSE,
                                                    viewport |-> NoViewport]),
                        !.frames = {},
                        !.state = NewState]

setupTouchScroll(s) ==
    LET s1 == touchScrollCleanup(s)
    IN  IF ~s1.enableTouchScroll \/ ~s1.terminalRef THEN s1
        ELSE [s1 EXCEPT !.state = NewState, !.touchScrollCleanupRef = TRUE]

\* The effect on [setupTouchScroll, sessionKey], run again: its cleanup,
\* then setupTouchScroll.
touchEffect(s) == setupTouchScroll(touchScrollCleanup(s))

\* terminal.dispose() as the viewport element sees it: the frames still
\* requested by cleaned-up closures go on against the disposed element.
DisposeViewport(s) ==
    [s EXCEPT !.orphans = [i \in 1..Len(@) |->
                              IF @[i].disposed THEN @[i]
                              ELSE [@[i] EXCEPT !.disposed = TRUE,
                                                !.viewport = s.viewport]]]

\* terminal.open(container): a new viewport element, scrolled to the top.
OpenViewport(s) == [s EXCEPT !.viewport.scrollTop = 0]

\* ------------------------------------------------------- reconciliation
\* Faulty variant: the branch resets whatever the cursor says.
emptyBranch_always(s) == fitTerminal(resetWriteState(TermReset(s)))

\* chunks.length === 0: a reset to empty when something was processed.
emptyBranch(s) ==
    IF s.processedCount # 0
    THEN fitTerminal(resetWriteState(TermReset(s)))
    ELSE s

\* Faulty variants: one of the two reset signals is left out; a sequence of
\* the cursor's length counts as shrunk.
shouldReset_noIdCheck(s, ch) == s.processedCount > Len(ch)
shouldReset_noShrink(s, ch) == s.firstChunkId # ch[1].id
shouldReset_orEqual(s, ch) ==
    s.firstChunkId # ch[1].id \/ s.processedCount >= Len(ch)

shouldReset(s, ch) ==
    s.firstChunkId # ch[1].id \/ s.processedCount > Len(ch)

\* Faulty variants: the slice starts one chunk early; the whole sequence is
\* taken whatever the cursor says.
pending_offByOne(s, ch) ==
    Slice(ch, IF s.processedCount > 0 THEN s.processedCount - 1 ELSE 0)
pending_all(s, ch) == ch

\* chunks.slice(processedCountRef.current)
pending(s, ch) == Slice(ch, s.processedCount)

hasDelta(s, ch) == s.processedCount < Len(ch)

\* The effect on [chunks, ...]: reconcile the store against the cursor.
chunksEffect(s, ch) ==
    IF ~s.terminalRef THEN s
    ELSE IF Len(ch) = 0 THEN emptyBranch(s)
    ELSE LET currentFirstId == ch[1].id
             s1 == IF s.firstChunkId = Null
                   THEN [s EXCEPT !.firstChunkId = currentFirstId] ELSE s
             s2 == IF shouldReset(s1, ch)
                   THEN [resetWriteState(TermReset(s1))
                            EXCEPT !.firstChunkId = currentFirstId]
                   ELSE s1
         IN  IF hasDelta(s2, ch)
             THEN [enqueueWrite(s2, JoinData(pending(s2, ch)))
                      EXCEPT !.processedCount = Len(ch)]
             ELSE s2

\* Faulty variant of the session effect: it relies on the id comparison of
\* the chunk effect instead of resetting.
sessionKeyEffect_none(s) == s

\* The effect on [sessionKey, ...].
sessionKeyEffect(s) ==
    IF ~s.terminalRef THEN s
    ELSE fitTerminal(resetWriteState(TermReset(s)))

\* Faulty variant: clear() resets the surface and leaves the queue and the
\* cursor.
clear_surfaceOnly(s) ==
    IF ~s.terminalRef THEN s
    ELSE fitTerminal(TermReset(s))

\* TerminalController.clear
clear(s) ==
    IF ~s.terminalRef THEN s
    ELSE fitTerminal(resetWriteState(TermReset(s)))

\* Cleanup of the mount effect: terminal.dispose(), the refs are nulled.
mountCleanup(s) ==
    LET s1 == DisposeViewport(touchScrollCleanup(s))
    IN  resetWriteState([s1 EXCEPT !.terminalRef = FALSE, !.written = <<>>,
                                   !.enqueued = <<>>, !.inflight = 0,
                                   !.disposed = @ + 1,
                                   !.stale = (@ \/ s.inflight > 0)])

\* The mount effect: new Terminal, open, fitTerminal.
mountEffect(s) ==
    fitTerminal([OpenViewport(s) EXCEPT !.terminalRef = TRUE,
                                        !.written = <<>>,
                                        !.enqueued = <<>>, !.inflight = 0,
                                        !.created = @ + 1])

\* The effect on [fontFamily, fontSize, theme]: options assigned, refit.
optionsEffect(s) == IF ~s.terminalRef THEN s ELSE fitTerminal(s)

\* ------------------------------------------------------ the chunk store
\* j fresh chunks of session key, ids counting up from nid.
RECURSIVE Fresh(_, _, _)
Fresh(key, nid, j) ==
    IF j = 0 THEN {<<>>}
    ELSE {Append(cs, [id |-> nid + j - 1, data |-> d]) :
             cs \in Fresh(key, nid, j - 1), d \in Data(key, nid + j - 1)}

FreshUpTo(key, nid) ==
    UNION {Fresh(key, nid, j) : j \in 0..Min(MaxChunks, MaxId - nid + 1)}

\* What the store may hold at the next commit, within one session: chunks
\* are immutable and ids fresh and increasing; the store appends, drops
\* chunks from the front (rotation; all of them is a clear or a wholesale
\* replacement), or is cut back at the tail.  An unchanged sequence in a new
\* array is the case k = 0 with nothing fresh.
StoreNext(key, cs, nid) ==
    {[chunks |-> Slice(cs, kf[1]) \o kf[2], next |-> nid + Len(kf[2])] :
        kf \in {x \in (0..Len(cs)) \X FreshUpTo(key, nid) :
                   Len(cs) - x[1] + Len(x[2]) <= MaxChunks}}
    \cup {[chunks |-> SubSeq(cs, 1, n), next |-> nid] : n \in 1..(Len(cs) - 1)}

\* What another session's store holds when the parent switches to it: some
\* chunks of output, ids counting from 1 (what ChunksChange can make of it
\* afterwards is any store).
StoreOfSession(key) ==
    {[chunks |-> [i \in 1..j |-> [id |-> i, data |-> <<<<key, i>>>>]],
      next |-> 1 + j] : j \in 0..Min(MaxChunks, MaxId)}

\* ------------------------------------------------ GitHub device flow
\* Most device flows started, most poll requests of one device code in
\* flight, and the longest poll period, in a behaviour.
MaxFlows == 2
MaxPolls == 2
MaxIntervalMs == 11000

\* payload.interval of authStart's response, in seconds.
StartIntervals == {0, 5}
\* What pollOnce gives: a DeviceFlowCompleteResponse that is connected, or
\* not connected with a status, or a rejection ("error").
PollResults ==
    {"connected", "authorization_pending", "slow_down", "expired_token",
     "access_denied", "error"}
TerminalResults == {"connected", "expired_token", "access_denied"}

\* The component's state and ref, the window's intervals and the store as
\* one record, plus the calls made so far by the running handler: toasts,
\* refreshStatus(force) (refreshes) and pollOnce (requested).
GCur ==
    [flow |-> flow, pollIntervalMs |-> pollIntervalMs,
     pollTimerRef |-> pollTimerRef, pollTimers |-> pollTimers,
     polls |-> polls, isBusy |-> isBusy, connected |-> connected,
     toasts |-> <<>>, refreshes |-> 0, requested |-> <<>>]

\* window.clearInterval(handle)
clearInterval(g, handle) ==
    [g EXCEPT !.pollTimers = {x \in @ : x.handle # handle}]

\* window.setInterval(callback over deviceCode, ms): a handle no active
\* interval has.
setInterval(g, deviceCode, ms) ==
    LET h == CHOOSE h \in 1..(MaxFlows + 1) :
                 \A x \in g.pollTimers : x.handle # h
    IN  [g EXCEPT !.pollTimers = @ \cup {[handle |-> h, code |-> deviceCode,
                                          ms |-> ms]},
                  !.pollTimerRef = h]

\* Faulty variant: the period is cleared, the interval goes on.
stopPolling_keepTimer(g) ==
    [g EXCEPT !.pollTimerRef = Null, !.pollIntervalMs = Null]

stopPolling(g) ==
    LET g1 == IF g.pollTimerRef # Null
              THEN [clearInterval(g, g.pollTimerRef)
                       EXCEPT !.pollTimerRef = Null]
              ELSE g
    IN  [g1 EXCEPT !.pollIntervalMs = Null]

\* The polling effect on [flow, pollIntervalMs, ...], when the commit
\* changed one of the two: its cleanup, then its body.
pollEffect(g) ==
    IF g.flow = flow /\ g.pollIntervalMs = pollIntervalMs THEN g
    ELSE LET g1 == IF g.pollTimerRef # Null
                   THEN [clearInterval(g, g.pollTimerRef)
                            EXCEPT !.pollTimerRef = Null]
                   ELSE g
         IN  IF g1.flow = Null \/ g1.pollIntervalMs = Null THEN g1
             ELSE IF g1.pollTimerRef # Null THEN g1
             ELSE setInterval(g1, g1.flow, g1.pollIntervalMs)

\* startConnect after authStart has answered with a payload, or failed.
startConnect(g, ok, payload) ==
    IF ok
    THEN [g EXCEPT !.flow = payload.deviceCode,
                   !.pollIntervalMs = Max(1, payload.interval) * 1000,
                   !.isBusy = FALSE]
    ELSE [g EXCEPT !.toasts = Append(@, "Failed to start GitHub connect"),
                   !.isBusy = FALSE]

\* The interval's callback up to its await: pollOnce(flow.deviceCode) of
\* the closure's flow.
pollTick(g, timer) ==
    [g EXCEPT !.polls[timer.code] = @ + 1,
              !.requested = Append(@, timer.code)]

\* The callback's continuation, when pollOnce(deviceCode) has settled.
pollResult(g, deviceCode, result) ==
    IF result = "connected"
    THEN [stopPolling([g EXCEPT !.toasts = Append(@, "GitHub connected"),
                                !.flow = Null])
             EXCEPT !.refreshes = @ + 1, !.connected = TRUE]
    ELSE IF result = "slow_down"
    THEN [g EXCEPT !.pollIntervalMs = IF @ # Null THEN @ + 5000 ELSE 5000]
    ELSE IF result \in {"expired_token", "access_denied"}
    THEN stopPolling([g EXCEPT !.toasts =
                                   Append(@, "GitHub authorization failed"),
                               !.flow = Null])
    ELSE g

\* The Cancel button's handler.
cancel(g) == [stopPolling(g) EXCEPT !.flow = Null]

\* disconnect up to its await, and after it (the request done or failed).
disconnect(g) == [stopPolling([g EXCEPT !.isBusy = TRUE]) EXCEPT !.flow = Null]
disconnected(g, ok) ==
    IF ok
    THEN [g EXCEPT !.toasts = Append(@, "GitHub disconnected"),
                   !.refreshes = @ + 1, !.connected = FALSE,
                   !.isBusy = FALSE]
    ELSE [g EXCEPT !.toasts = Append(@, "Failed to disconnect GitHub"),
                   !.isBusy = FALSE]

\* GitHubSettings as mounted: no flow, nothing pending, not connected.
GitHubInit ==
    /\ flow = Null
    /\ pollIntervalMs = Null
    /\ pollTimerRef = Null
    /\ pollTimers = {}
    /\ polls = [c \in 1..MaxFlows |-> 0]
    /\ isBusy = FALSE
    /\ awaiting = "none"
    /\ connected = FALSE
    /\ nextCode = 1
    /\ ended = {}
    /\ gh = [op |-> "mount", code |-> Null, result |-> "none",
             toasts |-> <<>>, refreshes |-> 0, requested |-> <<>>]

\* ---------------------------------------------------------------- actions
Commit(s) ==
    /\ terminalRef' = s.terminalRef
    /\ writeQueue' = s.writeQueue
    /\ isWriting' = s.isWriting
    /\ processedCount' = s.processedCount
    /\ firstChunkId' = s.firstChunkId
    /\ written' = s.written
    /\ enqueued' = s.enqueued
    /\ inflight' = s.inflight
    /\ stale' = s.stale
    /\ timers' = s.timers
    /\ container' = s.container
    /\ fitThrows' = s.fitThrows
    /\ dims' = s.dims
    /\ enableTouchScroll' = s.enableTouchScroll
    /\ supportsPointerEvents' = s.supportsPointerEvents
    /\ touchScrollCleanupRef' = s.touchScrollCleanupRef
    /\ state' = s.state
    /\ viewport' = s.viewport
    /\ frames' = s.frames
    /\ orphans' = s.orphans
    /\ capture' = s.capture

\* The record of a handler: which one, whether the chunk effect ran in it,
\* the cursor it found, and the calls it made: terminal.reset(),
\* enqueueWrite(data), term.write and fitTerminal().
Event(op, reran, s) ==
    [op |-> op, reran |-> reran,
     pc |-> processedCount, first |-> firstChunkId,
     resets |-> s.resets, enq |-> s.enq, writes |-> s.writes, fits |-> s.fits,
     fitted |-> s.fitted, resized |-> s.resized,
     created |-> s.created, disposed |-> s.disposed]

\* The scroll engine after the first commit on a platform (with pointer
\* events or without), over a viewport of the given content height and
\* offset: the touch effect has run setupTouchScroll.
ScrollInit(pe, height, top, ms) ==
    /\ enableTouchScroll = TRUE
    /\ supportsPointerEvents = pe
    /\ touchScrollCleanupRef = TRUE
    /\ state = NewState
    /\ viewport = [scrollTop |-> top, scrollHeight |-> height,
                   clientHeight |-> ClientHeight]
    /\ frames = {}
    /\ orphans = <<>>
    /\ capture = {}
    /\ pointers = {}
    /\ touches = 0
    /\ interval = ms
    /\ presses = 0
    /\ moves = 0
    /\ decay = [v0 |-> 0, n |-> 0, clean |-> FALSE]
    /\ sv = [op |-> "setup", assigned |-> <<>>, cancels |-> 0,
             requests |-> 0, sampled |-> FALSE, deltaY |-> 0, found |-> 0]
    /\ twin = [state |-> NewState,
               viewport |-> [scrollTop |-> top, scrollHeight |-> height,
                             clientHeight |-> ClientHeight],
               frames |-> {}, assigned |-> <<>>]

TermInit ==
    /\ sessionKey = "s1"
    /\ chunks = <<>>
    /\ nextChunkId = 1
    /\ terminalRef = TRUE
    /\ writeQueue = <<>>
    /\ isWriting = FALSE
    /\ processedCount = 0
    /\ firstChunkId = Null
    /\ written = <<>>
    /\ enqueued = <<>>
    /\ inflight = 0
    /\ stale = FALSE
    /\ timers = 0
    /\ container = <<30, 30>>
    /\ fitThrows = FALSE
    /\ dims = Propose(<<30, 30>>)
    /\ ev = [op |-> "mount", reran |-> TRUE, pc |-> 0, first |-> Null,
             resets |-> 1, enq |-> <<>>, writes |-> <<>>, fits |-> 3,
             fitted |-> 3,
             resized |-> <<Propose(<<30, 30>>), Propose(<<30, 30>>),
                           Propose(<<30, 30>>)>>,
             created |-> 1, disposed |-> 0]

Init == TermInit /\ ScrollInit(TRUE, 400000, 0, 16) /\ GitHubInit

\* The variables only the gesture handlers and the frames change.
gvars == <<pointers, touches, interval, presses, moves, decay, sv, xvars>>

\* A commit in which only the chunks prop changed: the chunk effect runs.
ChunksChange ==
    /\ terminalRef
    /\ \E n \in StoreNext(sessionKey, chunks, nextChunkId) :
          LET s == chunksEffect(Cur, n.chunks)
          IN  /\ Commit(s)
              /\ chunks' = n.chunks
              /\ nextChunkId' = n.next
              /\ ev' = Event("chunks", TRUE, s)
    /\ UNCHANGED <<sessionKey, gvars>>

\* A commit in which sessionKey changed: the session effect runs, the touch
\* effect runs again, then the chunk effect if the chunks prop is a new
\* array (the other session's).
SessionChange ==
    /\ terminalRef
    /\ \E key \in SessionKeys \ {sessionKey} :
          /\ sessionKey' = key
          /\ UNCHANGED gvars
          /\ \/ LET s == touchEffect(sessionKeyEffect(Cur))
                IN  /\ Commit(s)
                    /\ ev' = Event("session", FALSE, s)
                    /\ UNCHANGED <<chunks, nextChunkId>>
             \/ \E n \in StoreOfSession(key) :
                LET s1 == touchEffect(sessionKeyEffect(Cur))
                    s == chunksEffect(s1, n.chunks)
                IN  /\ Commit(s)
                    /\ chunks' = n.chunks
                    /\ nextChunkId' = n.next
                    /\ ev' = Event("session", TRUE, s)

\* TerminalController.clear() called by the parent.
Clear ==
    /\ terminalRef
    /\ LET s == clear(Cur)
       IN  /\ Commit(s)
           /\ ev' = Event("clear", FALSE, s)
    /\ UNCHANGED <<sessionKey, chunks, nextChunkId, gvars>>

\* A commit in which fontFamily, fontSize or theme changed: the mount effect
\* is cleaned up and runs again, then the options effect.
Remount ==
    /\ terminalRef
    /\ LET s == optionsEffect(mountEffect(mountCleanup(Cur)))
       IN  /\ Commit(s)
           /\ ev' = Event("remount", FALSE, s)
    /\ UNCHANGED <<sessionKey, chunks, nextChunkId, gvars>>

\* The component is unmounted.
Unmount ==
    /\ terminalRef
    /\ LET s == mountCleanup(Cur)
       IN  /\ Commit(s)
           /\ ev' = Event("unmount", FALSE, s)
    /\ UNCHANGED <<sessionKey, chunks, nextChunkId, gvars>>

\* One turn of the event loop: the completion callback of a write (of one
\* in flight, or of an abandoned one, after which more of those may be left
\* or not), or a consumeNext scheduled by setTimeout.
Callback ==
    /\ \E k \in {"write", "stale", "timer"} :
          /\ CASE k = "write" -> inflight > 0
               [] k = "stale" -> stale
               [] OTHER -> timers > 0
          /\ \E left \in (IF k # "write" THEN {inflight}
                          ELSE IF inflight = 2 THEN {1, 2} ELSE {0}),
                more \in (IF k = "stale" THEN BOOLEAN ELSE {stale}) :
                LET s == CASE k = "write" ->
                                 writeCallback([Cur EXCEPT !.inflight = left])
                           [] k = "stale" ->
                                 writeCallback([Cur EXCEPT !.stale = more])
                           [] OTHER ->
                                 consumeNext([Cur EXCEPT !.timers = @ - 1])
                IN  /\ Commit(s)
                    /\ ev' = Event(k, FALSE, s)
    /\ UNCHANGED <<sessionKey, chunks, nextChunkId, gvars>>

Next ==
    \/ ChunksChange
    \/ SessionChange
    \/ Clear
    \/ Remount
    \/ Unmount
    \/ Callback

Spec == Init /\ [][Next]_vars

\* The ResizeObserver's callback: the container has a new size (and the
\* surface may have got into or out of the condition in which fit() throws).
Resize ==
    /\ terminalRef
    /\ \E w \in Sizes, h \in Sizes, t \in BOOLEAN :
          LET s == fitTerminal([Cur EXCEPT !.container = <<w, h>>,
                                           !.fitThrows = t])
          IN  /\ <<w, h, t>> # <<container[1], container[2], fitThrows>>
              /\ Commit(s)
              /\ ev' = Event("resize", FALSE, s)
    /\ UNCHANGED <<sessionKey, chunks, nextChunkId, gvars>>

\* The resize coordinator with the handlers that reset and refit, on a
\* store that changes by session only.
NextFit ==
    \/ Resize
    \/ SessionChange
    \/ Clear
    \/ Callback

SpecFit == Init /\ [][NextFit]_vars

\* One session on one surface: the store changes and the parent calls
\* clear().
NextClear ==
    \/ ChunksChange
    \/ Clear
    \/ Callback

SpecClear == Init /\ [][NextClear]_vars

\* ------------------------------------------------- the gestures and frames
\* The record of a gesture handler or frame: the offsets it assigned to
\* viewport.scrollTop, the frames it cancelled and requested, the deltaY it
\* measured and, of a release, the velocity it found.
ScrollEvent(op, s) ==
    [op |-> op, assigned |-> s.assigned, cancels |-> s.cancels,
     requests |-> s.requests, sampled |-> s.sampled, deltaY |-> s.deltaY,
     found |-> IF op \in {"pointerup", "touchend"} THEN state.velocity ELSE 0]

\* What a release leaves in decay: the speed an inertial loop begins with
\* (and whether it is the only loop), or an input that ends the count.
Released(s) ==
    IF s.requests > 0
    THEN [v0 |-> Abs(s.state.velocity), n |-> 0,
          clean |-> (frames = {} /\ orphans = <<>>)]
    ELSE [decay EXCEPT !.clean = FALSE]

\* pointerdown on the container with its listeners on.  A touch pointer
\* goes down once.
PointerDownOf(p, y) ==
    /\ terminalRef /\ supportsPointerEvents /\ touchScrollCleanupRef
    /\    LET e == [pointerType |-> p.pointerType, pointerId |-> p.pointerId,
                    clientY |-> y]
              s == handlePointerDown(Cur, e)
              touch == p.pointerType = "touch"
              id == p.pointerId
          IN  /\ touch => (id \notin pointers /\ presses < MaxPresses)
              /\ Commit(s)
              /\ sv' = ScrollEvent("pointerdown", s)
              /\ pointers' = IF touch THEN pointers \cup {id} ELSE pointers
              /\ presses' = IF touch THEN presses + 1 ELSE presses
              /\ decay' = [decay EXCEPT !.clean = FALSE]
    /\ UNCHANGED <<sessionKey, chunks, nextChunkId, ev, touches, interval,
                   moves>>

PointerDown ==
    /\ \E p \in Pointers, y \in PressYs : PointerDownOf(p, y)
    /\ UNCHANGED xvars

\* pointermove: a sample of a pointer that is down, or of the mouse.
PointerMoveOf(p, y) ==
    /\ terminalRef /\ supportsPointerEvents /\ touchScrollCleanupRef
    /\    LET e == [pointerType |-> p.pointerType, pointerId |-> p.pointerId,
                    clientY |-> y, dt |-> interval]
              s == handlePointerMove(Cur, e)
              touch == p.pointerType = "touch"
              id == p.pointerId
          IN  /\ touch => (id \in pointers /\ moves < MaxMoves)
              /\ Commit(s)
              /\ sv' = ScrollEvent("pointermove", s)
              /\ moves' = IF touch THEN moves + 1 ELSE moves
              /\ decay' = [decay EXCEPT !.clean = FALSE]
    /\ UNCHANGED <<sessionKey, chunks, nextChunkId, ev, touches, pointers,
                   presses, interval>>

PointerMove ==
    /\ \E p \in Pointers, y \in Ys : PointerMoveOf(p, y)
    /\ UNCHANGED xvars

\* pointerup or pointercancel; the browser lets go of the pointer's capture
\* after it.
PointerUpOf(p) ==
    /\ terminalRef /\ supportsPointerEvents
    /\    LET e == [pointerType |-> p.pointerType, pointerId |-> p.pointerId]
              s == IF touchScrollCleanupRef THEN handlePointerUp(Cur, e)
                   ELSE Cur
              touch == p.pointerType = "touch"
              id == p.pointerId
          IN  /\ touch => id \in pointers
              /\ Cardinality(s.frames) <= MaxLoops
              /\ Commit(IF touch THEN [s EXCEPT !.capture = @ \ {id}] ELSE s)
              /\ sv' = ScrollEvent("pointerup", s)
              /\ pointers' = IF touch THEN pointers \ {id} ELSE pointers
              /\ decay' = Released(s)
    /\ UNCHANGED <<sessionKey, chunks, nextChunkId, ev, touches, presses,
                   moves, interval>>

PointerUp ==
    /\ \E p \in Pointers : PointerUpOf(p)
    /\ UNCHANGED xvars

\* touchstart with the listeners on: one more finger on the surface;
\* event.touches holds them all.
TouchStart ==
    /\ terminalRef /\ ~supportsPointerEvents /\ touchScrollCleanupRef
    /\ presses < MaxPresses
    /\ \E y \in PressYs :
          LET e == [touches |-> touches + 1, clientY |-> y]
              s == handleTouchStart(Cur, e)
          IN  /\ Commit(s)
              /\ sv' = ScrollEvent("touchstart", s)
    /\ touches' = touches + 1
    /\ presses' = presses + 1
    /\ decay' = [decay EXCEPT !.clean = FALSE]
    /\ UNCHANGED <<sessionKey, chunks, nextChunkId, ev, pointers, interval,
                   moves, xvars>>

\* touchmove: a sample of the fingers on the surface.
TouchMove ==
    /\ terminalRef /\ ~supportsPointerEvents /\ touchScrollCleanupRef
    /\ touches >= 1 /\ moves < MaxMoves
    /\ \E y \in Ys :
          LET e == [touches |-> touches, clientY |-> y, dt |-> interval]
              s == handleTouchMove(Cur, e)
          IN  /\ Commit(s)
              /\ sv' = ScrollEvent("touchmove", s)
    /\ moves' = moves + 1
    /\ decay' = [decay EXCEPT !.clean = FALSE]
    /\ UNCHANGED <<sessionKey, chunks, nextChunkId, ev, pointers, touches,
                   presses, interval, xvars>>

\* touchend or touchcancel: a finger leaves the surface.
TouchEnd ==
    /\ terminalRef /\ ~supportsPointerEvents
    /\ touches >= 1
    /\ LET s == IF touchScrollCleanupRef THEN handleTouchEnd(Cur) ELSE Cur
       IN  /\ Cardinality(s.frames) <= MaxLoops
           /\ Commit(s)
           /\ sv' = ScrollEvent("touchend", s)
           /\ decay' = Released(s)
    /\ touches' = touches - 1
    /\ UNCHANGED <<sessionKey, chunks, nextChunkId, ev, pointers, presses,
                   moves, interval, xvars>>

\* An animation frame: a callback requested by the current closure runs.
FrameOf ==
    /\ \E h \in frames :
          LET s == step([Cur EXCEPT !.frames = @ \ {h}], interval)
          IN  /\ Commit(s)
              /\ sv' = ScrollEvent("frame", s)
    /\ decay' = [decay EXCEPT !.n = @ + 1]
    /\ UNCHANGED <<sessionKey, chunks, nextChunkId, ev, pointers, touches,
                   presses, moves, interval>>

Frame == FrameOf /\ UNCHANGED xvars

Remove(seq, i) == SubSeq(seq, 1, i - 1) \o SubSeq(seq, i + 1, Len(seq))

\* An animation frame of a closure that was cleaned up: the callback runs on
\* that closure's state and viewport element.
OrphanFrame ==
    /\ \E i \in 1..Len(orphans) :
       \E h \in orphans[i].frames :
          LET o == orphans[i]
              s1 == step([Cur EXCEPT !.state = o.state,
                                     !.frames = o.frames \ {h},
                                     !.viewport = IF o.disposed
                                                  THEN o.viewport ELSE @],
                         interval)
              o1 == [o EXCEPT !.state = s1.state, !.frames = s1.frames,
                              !.viewport = IF o.disposed THEN s1.viewport
                                           ELSE NoViewport]
              s == [Cur EXCEPT !.viewport = IF o.disposed THEN @
                                            ELSE s1.viewport,
                               !.orphans = IF o1.frames = {}
                                           THEN Remove(@, i)
                                           ELSE [@ EXCEPT ![i] = o1],
                               !.assigned = s1.assigned,
                               !.cancels = s1.cancels,
                               !.requests = s1.requests]
          IN  /\ Commit(s)
              /\ sv' = ScrollEvent(IF o.disposed THEN "disposed" ELSE "orphan",
                                   s)
    /\ decay' = [decay EXCEPT !.clean = FALSE]
    /\ UNCHANGED <<sessionKey, chunks, nextChunkId, ev, pointers, touches,
                   presses, moves, interval, xvars>>

\* A commit in which enableTouchScroll changed: setupTouchScroll is a new
\* callback, so the touch effect runs again (and no other effect).
ToggleTouchScroll ==
    /\ terminalRef
    /\ LET s == touchEffect([Cur EXCEPT !.enableTouchScroll = ~@])
       IN  /\ Commit(s)
           /\ sv' = ScrollEvent("setup", s)
    /\ decay' = [decay EXCEPT !.clean = FALSE]
    /\ UNCHANGED <<sessionKey, chunks, nextChunkId, ev, pointers, touches,
                   presses, moves, interval, xvars>>

InitScroll ==
    /\ TermInit
    /\ GitHubInit
    /\ \E pe \in BOOLEAN, height \in ScrollHeights, ms \in Intervals :
          ScrollInit(pe, height, 0, ms)

NextScroll ==
    \/ PointerDown
    \/ PointerMove
    \/ PointerUp
    \/ TouchStart
    \/ TouchMove
    \/ TouchEnd
    \/ Frame
    \/ OrphanFrame
    \/ ToggleTouchScroll
    \/ Unmount

SpecScroll == InitScroll /\ [][NextScroll]_vars

\* ------------------------------------------ the two paths, side by side
\* The same single-finger gestures and the same frames are given to the
\* engine of the pointer path (state, viewport, frames) and to an engine of
\* the legacy touch path (twin).
Finger == [pointerType |-> "touch", pointerId |-> 1]

\* The legacy engine as the record its handlers work on, and back.
TwinCur ==
    [Cur EXCEPT !.supportsPointerEvents = FALSE, !.state = twin.state,
                !.viewport = twin.viewport, !.frames = twin.frames]
Twin(s) ==
    [state |-> s.state, viewport |-> s.viewport, frames |-> s.frames,
     assigned |-> s.assigned]

\* The finger goes down: pointerdown there, touchstart here.
PathsPress ==
    /\ pointers = {}
    /\ UNCHANGED hvars
    /\ \E y \in PressYs :
          /\ PointerDownOf(Finger, y)
          /\ twin' = Twin(handleTouchStart(TwinCur, [touches |-> 1,
                                                     clientY |-> y]))

\* A sample of the finger: pointermove there, touchmove here.
PathsMove ==
    \E y \in Ys :
       /\ UNCHANGED hvars
       /\ PointerMoveOf(Finger, y)
       /\ twin' = Twin(handleTouchMove(TwinCur, [touches |-> 1, clientY |-> y,
                                                 dt |-> interval]))

\* The finger is lifted: pointerup there, touchend here.
PathsRelease ==
    /\ UNCHANGED hvars
    /\ PointerUpOf(Finger)
    /\ twin' = Twin(handleTouchEnd(TwinCur))

\* An animation frame: each engine's requested callback runs.
PathsFrame ==
    /\ (frames # {} \/ twin.frames # {})
    /\ UNCHANGED hvars
    /\ IF frames # {} THEN FrameOf
       ELSE /\ sv' = ScrollEvent("frame", Cur)
            /\ UNCHANGED <<tvars, enableTouchScroll, supportsPointerEvents,
                           touchScrollCleanupRef, state, viewport, frames,
                           orphans, capture, pointers, touches, interval,
                           presses, moves, decay>>
    /\ IF twin.frames = {} THEN twin' = [twin EXCEPT !.assigned = <<>>]
       ELSE \E h \in twin.frames :
               twin' = Twin(touchStep([TwinCur EXCEPT !.frames = @ \ {h}],
                                      interval))

InitPaths ==
    /\ TermInit
    /\ GitHubInit
    /\ \E height \in ScrollHeights, ms \in Intervals :
          ScrollInit(TRUE, height, 0, ms)

NextPaths ==
    \/ PathsPress
    \/ PathsMove
    \/ PathsRelease
    \/ PathsFrame

SpecPaths == InitPaths /\ [][NextPaths]_vars

\* ------------------------------------------- the device flow's handlers
GCommit(g) ==
    /\ flow' = g.flow
    /\ pollIntervalMs' = g.pollIntervalMs
    /\ pollTimerRef' = g.pollTimerRef
    /\ pollTimers' = g.pollTimers
    /\ polls' = g.polls
    /\ isBusy' = g.isBusy
    /\ connected' = g.connected

\* The record of a handler: which one, the device code and result it was
\* about, its toasts, its forced status refreshes and its poll requests.
GEvent(op, deviceCode, result, g) ==
    [op |-> op, code |-> deviceCode, result |-> result, toasts |-> g.toasts,
     refreshes |-> g.refreshes, requested |-> g.requested]

\* "Login using GitHub Auth Flow" is chosen: startConnect sets isBusy and
\* awaits authStart.
StartConnect ==
    /\ ~isBusy /\ nextCode <= MaxFlows
    /\ LET g == [GCur EXCEPT !.isBusy = TRUE]
       IN  /\ GCommit(g)
           /\ gh' = GEvent("start", Null, "none", g)
    /\ awaiting' = "start"
    /\ UNCHANGED <<tvars, svars, nextCode, ended>>

\* The request startConnect or disconnect awaits settles; the handler goes
\* on and the commit's effects run.
Settle ==
    /\ awaiting # "none"
    /\ \E ok \in BOOLEAN, seconds \in StartIntervals :
          LET payload == [deviceCode |-> nextCode, interval |-> seconds]
              g == IF awaiting = "start"
                   THEN pollEffect(startConnect(GCur, ok, payload))
                   ELSE pollEffect(disconnected(GCur, ok))
              started == awaiting = "start" /\ ok
          IN  /\ (awaiting = "disconnect" \/ ~ok) => seconds = 0
              /\ GCommit(g)
              /\ gh' = GEvent(awaiting, IF started THEN nextCode ELSE Null,
                              IF ok THEN "ok" ELSE "error", g)
              /\ nextCode' = IF started THEN nextCode + 1 ELSE nextCode
    /\ awaiting' = "none"
    /\ UNCHANGED <<tvars, svars, ended>>

\* An active interval fires: its callback issues a poll request.
Tick ==
    /\ \E timer \in pollTimers :
          LET g == pollTick(GCur, timer)
          IN  /\ polls[timer.code] < MaxPolls
              /\ GCommit(g)
              /\ gh' = GEvent("tick", timer.code, "none", g)
    /\ UNCHANGED <<tvars, svars, awaiting, nextCode, ended>>

\* A poll request settles: the callback that issued it goes on, and the
\* commit's effects run.
PollSettles(deviceCode, result) ==
    /\ polls[deviceCode] > 0
    /\ (result = "slow_down" /\ pollIntervalMs # Null) =>
           pollIntervalMs + 5000 <= MaxIntervalMs
    /\ LET g == pollEffect(pollResult([GCur EXCEPT !.polls[deviceCode] = @ - 1],
                                      deviceCode, result))
       IN  /\ GCommit(g)
           /\ gh' = GEvent("result", deviceCode, result, g)
    /\ ended' = IF result \in TerminalResults THEN ended \cup {deviceCode}
                ELSE ended
    /\ UNCHANGED <<tvars, svars, awaiting, nextCode>>

PollResult ==
    \E deviceCode \in 1..MaxFlows, result \in PollResults :
       PollSettles(deviceCode, result)

\* The Cancel button, shown while a flow is held.
Cancel ==
    /\ flow # Null /\ ~isBusy
    /\ LET g == pollEffect(cancel(GCur))
       IN  /\ GCommit(g)
           /\ gh' = GEvent("cancel", flow, "none", g)
    /\ UNCHANGED <<tvars, svars, awaiting, nextCode, ended>>

\* The Disconnect button, shown while the store says connected.
Disconnect ==
    /\ connected /\ ~isBusy
    /\ LET g == pollEffect(disconnect(GCur))
       IN  /\ GCommit(g)
           /\ gh' = GEvent("disconnecting", flow, "none", g)
    /\ awaiting' = "disconnect"
    /\ UNCHANGED <<tvars, svars, nextCode, ended>>

NextGitHub ==
    \/ StartConnect
    \/ Settle
    \/ Tick
    \/ PollResult
    \/ Cancel
    \/ Disconnect

SpecGitHub == Init /\ [][NextGitHub]_vars

\* ------------------------------------------------------------- properties
Last(s) == s[Len(s)]

\* What enqueueWrite hands to term.write for a payload: nothing for ''.
Payloads(data) == IF data = <<>> THEN <<>> ELSE <<data>>

\* The last handler was the chunk effect alone, on a non-empty sequence.
Reconciled == ev.op = "chunks" /\ chunks # <<>>

\* C1. Write non-reentrancy: at most one write to the rendering surface is
\* outstanding; term.write is never called while the completion callback of
\* an earlier write has not fired.  (Writes abandoned by a reset are not
\* counted against the queue.)
C1_WriteNonReentrant == inflight <= 1

\* C2. No loss, no duplication, no reordering: what the surface was handed
\* since its last reset or creation is the data of chunks[0 .. processedCount)
\* of the sequence last reconciled, in order.
C2_NoLossNoDup ==
    /\ processedCount <= Len(chunks)
    /\ written = JoinData(SubSeq(chunks, 1, processedCount))

\* A reconciliation appended a delta while an earlier write was in flight.
C2_Witness ==
    /\ Reconciled /\ ev.resets = 0 /\ ev.writes # <<>>
    /\ ev.pc >= 1
    /\ inflight = 2
    /\ Len(written) >= 3

\* C3. Write ordering: the surface is handed payloads in enqueue order (what
\* it was handed is what was enqueued, in that order, less what was
\* replaced), and once nothing is pending the last payload enqueued is the
\* last one handed over.
C3_WriteOrder ==
    /\ IsSubseq(written, enqueued)
    /\ (writeQueue = <<>> /\ enqueued # <<>>) =>
          (written # <<>> /\ Last(written) = Last(enqueued))

\* Two payloads were enqueued, the second before the first write completed.
C3_Witness ==
    /\ ev.enq # <<>> /\ Last(ev.enq) # <<>>
    /\ ev.resets = 0
    /\ Len(enqueued) > Len(Last(ev.enq))
    /\ inflight = 2

\* C4. Reset on identity change: a reconciliation that finds a recorded first
\* id other than the sequence's resets the surface once and empties the
\* queue before writing, and the surface is then handed exactly the data of
\* the new sequence, as one payload.
C4_ResetOnIdentityChange ==
    (Reconciled /\ ev.first # Null /\ ev.first # chunks[1].id) =>
        /\ ev.resets = 1
        /\ ev.writes = Payloads(JoinData(chunks))
        /\ written = JoinData(chunks)
        /\ writeQueue = <<>>
        /\ firstChunkId = chunks[1].id
        /\ processedCount = Len(chunks)

\* The store was replaced while a write of the old sequence was in flight.
C4_Witness ==
    /\ Reconciled /\ ev.first # Null /\ ev.first # chunks[1].id
    /\ ev.writes # <<>>
    /\ Len(chunks) >= 2
    /\ stale /\ inflight = 1

\* C5. Delta correctness: when the store has grown past a cursor that stands
\* on the same first id, the reconciliation enqueues exactly one payload,
\* the data of the chunks from the cursor on, resets nothing and moves the
\* cursor to the end.
C5_DeltaCorrect ==
    (Reconciled /\ ev.pc >= 1 /\ ev.first = chunks[1].id /\ ev.pc < Len(chunks)) =>
        /\ ev.enq = <<JoinData(Slice(chunks, ev.pc))>>
        /\ ev.writes = Payloads(JoinData(Slice(chunks, ev.pc)))
        /\ ev.resets = 0
        /\ processedCount = Len(chunks)
        /\ firstChunkId = ev.first

\* Two chunks were appended to a processed sequence and written as one.
C5_Witness ==
    /\ Reconciled /\ ev.pc >= 1 /\ ev.first = chunks[1].id
    /\ Len(chunks) >= ev.pc + 2
    /\ ev.writes # <<>> /\ Len(ev.writes[1]) >= 2

\* C6. Idempotence: reconciling again a sequence that is unchanged and
\* already reconciled (the cursor stands at its end) writes nothing, resets
\* nothing and leaves the cursor and the surface as they are.
C6_Idempotent ==
    [][(ev'.op = "chunks" /\ chunks' = chunks /\ processedCount = Len(chunks)) =>
          /\ ev'.writes = <<>> /\ ev'.enq = <<>> /\ ev'.resets = 0
          /\ UNCHANGED <<processedCount, firstChunkId, written, writeQueue>>]_vars

\* A sequence of two chunks or more was reconciled a second time.
C6_Witness ==
    /\ Reconciled /\ Len(chunks) >= 2
    /\ ev.pc = Len(chunks) /\ ev.first = chunks[1].id
    /\ ev.enq = <<>> /\ ev.resets = 0
    /\ written # <<>>

\* C7. A session change resets unconditionally: the surface is reset and the
\* queue, busy flag and cursor are cleared whatever the chunk ids, so the
\* surface is handed all of the new session's chunks and nothing else.
C7_SessionReset ==
    (ev.op = "session") =>
        /\ ev.resets = 1
        /\ writeQueue = <<>>
        /\ IF ev.reran
           THEN /\ written = JoinData(chunks)
                /\ ev.writes = Payloads(JoinData(chunks))
                /\ processedCount = Len(chunks)
                /\ firstChunkId = IF chunks = <<>> THEN Null ELSE chunks[1].id
           ELSE /\ written = <<>> /\ ev.writes = <<>>
                /\ processedCount = 0 /\ firstChunkId = Null
                /\ isWriting = FALSE

\* The new session's sequence has the old first id and is no shorter than
\* the old cursor.
C7_Witness ==
    /\ ev.op = "session" /\ ev.reran /\ chunks # <<>>
    /\ ev.pc >= 1 /\ ev.first = chunks[1].id /\ Len(chunks) >= ev.pc
    /\ written = JoinData(chunks)

\* C8. Reset to empty: on an empty sequence the reconciliation, if the cursor
\* is not 0, resets the surface, clears cursor and queue and refits, writing
\* nothing; if the cursor is 0 it calls nothing and changes nothing.
C8_ResetToEmpty ==
    [][(ev'.op = "chunks" /\ chunks' = <<>>) =>
          IF processedCount # 0
          THEN /\ ev'.resets = 1 /\ ev'.fits = 1
               /\ ev'.writes = <<>> /\ ev'.enq = <<>>
               /\ processedCount' = 0 /\ firstChunkId' = Null
               /\ writeQueue' = <<>> /\ isWriting' = FALSE
               /\ written' = <<>>
          ELSE /\ ev'.resets = 0 /\ ev'.fits = 0
               /\ ev'.writes = <<>> /\ ev'.enq = <<>>
               /\ UNCHANGED <<writeQueue, isWriting, processedCount,
                              firstChunkId, written, enqueued, inflight,
                              timers, terminalRef>>]_vars

\* A processed store was emptied while a write was in flight.
C8_Witness ==
    /\ ev.op = "chunks" /\ chunks = <<>>
    /\ ev.pc # 0 /\ ev.resets = 1
    /\ stale

\* C9. Shrink is a reset signal: a sequence with the recorded first id but
\* shorter than the cursor makes the reconciliation reset the surface and
\* replay the whole sequence as one payload, the cursor ending at its length.
C9_ShrinkResets ==
    (Reconciled /\ ev.first = chunks[1].id /\ Len(chunks) < ev.pc) =>
        /\ ev.resets = 1
        /\ ev.enq = <<JoinData(chunks)>>
        /\ ev.writes = Payloads(JoinData(chunks))
        /\ written = JoinData(chunks)
        /\ processedCount = Len(chunks)
        /\ firstChunkId = chunks[1].id

\* A processed sequence of three chunks was cut back to two.
C9_Witness ==
    /\ Reconciled /\ ev.first = chunks[1].id /\ Len(chunks) < ev.pc
    /\ Len(chunks) >= 2
    /\ Len(written) >= 2

\* C10. Single-slot queue: the pending write queue never holds more than one
\* payload.
C10_SingleSlot == Len(writeQueue) <= 1

\* A payload was enqueued while earlier writes were still in flight.
C10_Witness ==
    /\ ev.enq # <<>> /\ Last(ev.enq) # <<>>
    /\ ev.resets = 0 /\ ev.pc >= 2
    /\ inflight = 2
    /\ Len(writeQueue) <= 1

\* C11. The queue reset is unconditional and final: a handler that resets
\* and enqueues nothing afterwards (session swap, clear, reset to empty,
\* unmount) leaves no pending payload and the busy flag false, whatever was
\* in flight; and the completion callback of a write abandoned by a reset,
\* firing after it, hands nothing to the surface and leaves the pending
\* payload, the cursor and the surface's content as they are.
C11_ResetFinal ==
    [][/\ (ev'.op \in {"session", "clear", "chunks", "unmount"}
            /\ (ev'.resets >= 1 \/ ev'.op = "unmount") /\ ev'.enq = <<>>) =>
              (writeQueue' = <<>> /\ ~isWriting')
       /\ (ev'.op = "stale") =>
              /\ ev'.writes = <<>> /\ ev'.enq = <<>> /\ ev'.resets = 0
              /\ UNCHANGED <<writeQueue, processedCount, firstChunkId,
                             written, enqueued, inflight>>]_vars

\* The callback of an abandoned write fired after the reset, while a write
\* of the new content was in flight.
C11_Witness ==
    /\ ev.op = "stale"
    /\ inflight = 1 /\ processedCount >= 1
    /\ written # <<>>

\* The container measures at least 24 pixels both ways.
Fits == container[1] >= 24 /\ container[2] >= 24

\* C16. Fit guard: a handler that calls fitTerminal on a mounted surface
\* asks the surface to recompute its dimensions if and only if the measured
\* width and height are both at least 24 pixels; a container of 20x20 never
\* triggers fit(), one of 24x24 or 30x30 does.
C16_FitGuard ==
    (ev.fits > 0 /\ terminalRef) =>
        IF Fits THEN ev.fitted = ev.fits ELSE ev.fitted = 0

\* The claim as stated: fit() if and only if both dimensions exceed 24.
C16_FitGuardExceeds ==
    (ev.fits > 0 /\ terminalRef) =>
        IF container[1] > 24 /\ container[2] > 24
        THEN ev.fitted = ev.fits ELSE ev.fitted = 0

\* The container was resized to exactly 24x24 and the surface was fitted.
C16_Witness ==
    /\ ev.op = "resize" /\ container = <<24, 24>>
    /\ ev.fitted = 1

\* C17. Best-effort fit reporting: the resize handler is invoked once for
\* each fit() that returns, with the counts the surface has after the fit,
\* and never for a fit that was skipped or threw; a resize whose fit throws
\* or is skipped completes, leaving the surface's counts, the write queue,
\* the delivery cursor and the surface's content as they were.
C17_FitReporting ==
    [][/\ Len(ev'.resized) = (IF fitThrows' THEN 0 ELSE ev'.fitted)
       /\ \A i \in 1..Len(ev'.resized) : ev'.resized[i] = dims'
       /\ (ev'.fitted > 0 /\ ~fitThrows') => dims' = Propose(container')
       /\ (ev'.op = "resize") =>
             /\ ev'.fits = 1 /\ ev'.fitted <= 1
             /\ ev'.resets = 0 /\ ev'.writes = <<>> /\ ev'.enq = <<>>
             /\ UNCHANGED <<writeQueue, isWriting, processedCount,
                            firstChunkId, written, enqueued, inflight,
                            stale, timers, terminalRef>>
             /\ (ev'.fitted = 0 \/ fitThrows') => dims' = dims]_vars

\* fit() threw in a resize while a write of processed chunks was in flight.
C17_Witness ==
    /\ ev.op = "resize" /\ fitThrows /\ ev.fitted = 1
    /\ ev.resized = <<>>
    /\ processedCount >= 1 /\ inflight >= 1

\* C19. In-place reconfiguration: a commit in which the font family, the
\* font size or the theme changed disposes no surface and creates none; the
\* surface's content, the write queue and the delivery cursor are as they
\* were, and the surface is refitted in that commit.
C19_InPlaceReconfiguration ==
    [][(ev'.op = "remount") =>
          /\ ev'.disposed = 0 /\ ev'.created = 0
          /\ ev'.fits >= 1
          /\ UNCHANGED <<written, writeQueue, processedCount,
                         firstChunkId>>]_vars

\* The largest offset the viewport can be scrolled to.
MaxTop(v) == IF v.scrollHeight > v.clientHeight
             THEN v.scrollHeight - v.clientHeight ELSE 0

\* C12. Scroll clamping: every offset a gesture handler or a frame assigns
\* to the viewport lies in [0, max(0, scrollHeight - clientHeight)], and so
\* does the viewport's offset.
C12_ScrollClamped ==
    /\ \A i \in 1..Len(sv.assigned) :
          sv.assigned[i] >= 0 /\ sv.assigned[i] <= MaxTop(viewport)
    /\ viewport.scrollTop >= 0 /\ viewport.scrollTop <= MaxTop(viewport)
    /\ \A i \in 1..Len(orphans) :
          orphans[i].viewport.scrollTop >= 0
              /\ orphans[i].viewport.scrollTop <= MaxTop(orphans[i].viewport)

\* An inertial loop of three frames or more ran into the end of the content.
C12_Witness ==
    /\ sv.op = "frame" /\ decay.clean /\ decay.n >= 3
    /\ sv.assigned = <<MaxTop(viewport)>>
    /\ MaxTop(viewport) > 0
    /\ frames = {}

\* The decay of one frame at this device's interval.
FrameDecay == deceleration * (IF interval > minInterval THEN interval
                              ELSE minInterval)

Sampled == sv.op \in {"pointermove", "touchmove"} /\ sv.sampled

\* C14. Jitter floor: a move sample less than one pixel from the last
\* position assigns no offset and leaves the viewport's offset and the
\* velocity as they were, in the pointer path and in the legacy touch path.
C14_JitterFloor ==
    [][(moves' = moves + 1 /\ sv'.sampled
           /\ sv'.deltaY < 1000 /\ sv'.deltaY > 0 - 1000) =>
          /\ sv'.assigned = <<>>
          /\ viewport' = viewport
          /\ state'.velocity = state.velocity]_vars

\* A sample half a pixel from the last one came while the velocity was not 0.
C14_Witness ==
    /\ Sampled /\ sv.deltaY \in {500, 0 - 500}
    /\ state.velocity # 0

\* C20. Velocity clamp: the velocity estimate of the closure, and of every
\* closure with a frame still to run, is between -8 and 8 pixels per
\* millisecond.
C20_VelocityClamped ==
    /\ state.velocity >= 0 - 8000 /\ state.velocity <= 8000
    /\ \A i \in 1..Len(orphans) :
          orphans[i].state.velocity >= 0 - 8000
              /\ orphans[i].state.velocity <= 8000

\* A sample of sixty pixels in 8 ms put the velocity at the clamp.
C20_Witness ==
    /\ Sampled /\ sv.deltaY >= 60000
    /\ state.velocity = 8000

\* C15. Cancellation of inertia: when a press has started tracking, and when
\* the touch effect has been cleaned up (the component torn down, the effect
\* run again), no frame of an inertial loop is left requested and the
\* velocity is 0, so that no frame of an earlier gesture scrolls afterwards.
C15_InertiaCancelled ==
    /\ (sv.op \in {"pointerdown", "touchstart"} /\ sv.cancels > 0) =>
          (frames = {} /\ state.velocity = 0 /\ state.rafId = Null)
    /\ (sv.op = "setup" \/ ev.op = "unmount") =>
          (frames = {} /\ orphans = <<>> /\ state.velocity = 0
              /\ state.rafId = Null)

\* C18. Teardown order: when the mount effect has been cleaned up, no
\* pointer is captured by the container, no frame is left requested, the
\* gesture listeners are off and the surface is disposed, so that no
\* callback works on the disposed surface afterwards.
C18_TeardownOrder ==
    (ev.op = "unmount") =>
        /\ capture = {}
        /\ frames = {} /\ orphans = <<>>
        /\ ~touchScrollCleanupRef
        /\ ~terminalRef

\* A release handled by the engine: a touch pointer the closure tracks is
\* lifted (pointer path), or a finger leaves the surface (legacy path),
\* with the listeners on.
Release ==
    /\ touchScrollCleanupRef
    /\ \/ /\ pointers' # pointers /\ pointers' \subseteq pointers
          /\ state.pointerId \in pointers \ pointers'
       \/ touches' = touches - 1

\* C21. Slow release goes straight to idle: a release that finds a velocity
\* under 0.05 in magnitude requests no frame and leaves velocity 0; one that
\* finds 0.05 or more requests exactly one frame, the one the animation
\* handle names afterwards, and keeps the velocity; neither assigns an
\* offset or changes the viewport's.
C21_SlowRelease ==
    [][Release =>
          /\ sv'.assigned = <<>> /\ viewport' = viewport
          /\ IF Abs(state.velocity) < minVelocity
             THEN /\ sv'.requests = 0
                  /\ frames' = frames
                  /\ state'.velocity = 0
             ELSE /\ sv'.requests = 1
                  /\ state'.rafId # Null
                  /\ frames' = frames \cup {state'.rafId}
                  /\ Cardinality(frames') = Cardinality(frames) + 1
                  /\ state'.velocity = state.velocity]_vars

\* A flick of 0.035 pixels per millisecond was released after it had
\* scrolled the viewport: no frame, velocity 0.
C21_Witness ==
    /\ sv.op \in {"pointerup", "touchend"}
    /\ sv.found # 0 /\ Abs(sv.found) < minVelocity
    /\ sv.requests = 0 /\ frames = {}
    /\ state.velocity = 0
    /\ viewport.scrollTop > 0

\* The pointer of an event is not the one the closure tracks: not a finger,
\* or not the finger whose id the state holds.
Unrelated(p) == p.pointerType # "touch" \/ p.pointerId # state.pointerId

\* C22. Unrelated pointers are ignored: in the pointer path a move, up or
\* cancel event of a pointer that is not a finger, or whose id is not the
\* active pointer id, leaves the viewport's offset, the velocity, the last
\* position and timestamp, the active pointer id, the animation handle and
\* the frames requested as they were; so does a press that is not a finger's.
C22_UnrelatedIgnored ==
    [][\A p \in Pointers :
          (\/ Unrelated(p) /\ \E y \in Ys : PointerMoveOf(p, y)
           \/ Unrelated(p) /\ PointerUpOf(p)
           \/ p.pointerType # "touch" /\ \E y \in PressYs : PointerDownOf(p, y))
          => (/\ UNCHANGED <<state, viewport, frames>>
              /\ sv'.assigned = <<>> /\ sv'.requests = 0
              /\ sv'.cancels = 0)]_vars

\* A gesture with two fingers down was under way, its velocity not 0, when
\* a move of a pointer it does not track (the other finger, the mouse) came.
C22_Witness ==
    /\ sv.op = "pointermove" /\ ~sv.sampled
    /\ Cardinality(pointers) = 2
    /\ state.pointerId # Null /\ state.lastY # NoY
    /\ state.velocity # 0

\* C23. Legacy multi-touch rejection: after a touchstart or a touchmove
\* that reported a number of touches other than one, the engine is idle:
\* last position and timestamp are null, the velocity is 0, no frame is
\* requested, and the event assigned no offset.
C23_MultiTouchRejected ==
    (sv.op \in {"touchstart", "touchmove"} /\ touches # 1) =>
        /\ state.lastY = NoY /\ state.lastTime = "null"
        /\ state.velocity = 0
        /\ state.rafId = Null /\ frames = {}
        /\ sv.assigned = <<>>

\* C24. Path equivalence: given the same single-finger gestures (press,
\* samples, release) and the same frames, the engine of the pointer path and
\* the engine of the legacy touch path assign the same offsets, hold the
\* same viewport offset, velocity, last position and timestamp after every
\* event, and have a frame requested at the same times, so that both loops
\* stop in the same frame.
C24_PathEquivalence ==
    /\ twin.viewport = viewport
    /\ twin.assigned = sv.assigned
    /\ twin.state.velocity = state.velocity
    /\ twin.state.lastY = state.lastY
    /\ twin.state.lastTime = state.lastTime
    /\ (twin.state.rafId = Null) = (state.rafId = Null)
    /\ (twin.frames = {}) = (frames = {})
    /\ Cardinality(twin.frames) <= 1 /\ Cardinality(frames) <= 1

\* Both loops have run three frames or more after a release and stopped in
\* the same frame, the viewports scrolled.
C24_Witness ==
    /\ sv.op = "frame" /\ decay.clean /\ decay.n >= 3
    /\ frames = {} /\ twin.frames = {}
    /\ state.velocity = 0 /\ twin.state.velocity = 0
    /\ sv.assigned # <<>> /\ twin.viewport.scrollTop > 0

\* C25. Cursor coherence: between any two handlers firstChunkIdRef is null
\* if and only if processedCountRef is 0; and when the chunk effect has just
\* run on a non-empty sequence, processedCountRef is the sequence's length
\* and firstChunkIdRef the id of its first chunk.
C25_CursorCoherent ==
    /\ (firstChunkId = Null) = (processedCount = 0)
    /\ (ev.op \in {"chunks", "session"} /\ ev.reran /\ chunks # <<>>) =>
          /\ processedCount = Len(chunks)
          /\ firstChunkId = chunks[1].id

\* The effect found the cursor on another first id, reset, and left the
\* cursor on the rotated sequence.
C25_Witness ==
    /\ ev.op = "chunks" /\ ev.resets = 1
    /\ ev.first # Null /\ ev.pc >= 2
    /\ Len(chunks) >= 2 /\ chunks[1].id > ev.first
    /\ processedCount = Len(chunks) /\ firstChunkId = chunks[1].id

\* C26. Single animation loop: whatever presses, samples, releases and
\* cancels came, on either path, the closure has at most one frame requested
\* and that frame is the one state.rafId names, so that cancelling the
\* handle stops the inertial scrolling.
C26_SingleLoop ==
    /\ Cardinality(frames) <= 1
    /\ frames \subseteq {state.rafId}

\* C27. clear() rewinds the cursor together with the surface: clear()
\* resets the surface once, empties the write queue, sets processedCountRef
\* to 0 and firstChunkIdRef to null and refits; and the chunk effect that
\* finds the cursor rewound, on a non-empty sequence, resets nothing and
\* hands the surface the data of all chunks of the sequence from index 0, in
\* order, those delivered before clear() included.
C27_ClearRewinds ==
    [][/\ (ev'.op = "clear") =>
             /\ ev'.resets = 1 /\ ev'.enq = <<>> /\ ev'.fits = 1
             /\ written' = <<>>
             /\ writeQueue' = <<>> /\ ~isWriting'
             /\ processedCount' = 0 /\ firstChunkId' = Null
       /\ (ev'.op = "chunks" /\ chunks' # <<>> /\ processedCount = 0) =>
             /\ ev'.resets = 0
             /\ ev'.enq = <<JoinData(chunks')>>
             /\ written' = JoinData(chunks')
             /\ processedCount' = Len(chunks')
             /\ firstChunkId' = chunks'[1].id]_vars

\* clear() came while the write of chunk 1 was in flight; the store grew and
\* the effect handed the surface chunk 1 again, with what followed it.
C27_Witness ==
    /\ ev.op = "chunks" /\ ev.pc = 0 /\ ev.resets = 0
    /\ stale
    /\ Len(chunks) >= 2 /\ chunks[1].id = 1
    /\ chunks[1].data # <<>>
    /\ written = JoinData(chunks)

\* C28. Touch scroll stays attached: after the effects of any commit the
\* gesture listeners are on the container (touchScrollCleanupRef holds their
\* cleanup) exactly when enableTouchScroll is set and a surface is mounted.
C28_TouchScrollAttached ==
    touchScrollCleanupRef = (enableTouchScroll /\ terminalRef)

\* C29. Device-flow polling stops on a terminal result: when a poll result
\* of connected, expired_token or access_denied has been handled the flow is
\* cleared, no interval is active and the period and the timer ref are
\* null; no poll request is issued afterwards for that result's device code
\* and no interval polls it; and at every moment at most one interval is
\* active, the one pollTimerRef names.
C29_PollingStops ==
    [][/\ Cardinality(pollTimers') <= 1
       /\ \A x \in pollTimers' : x.handle = pollTimerRef'
       /\ \A c \in 1..MaxFlows :
             /\ (\E r \in TerminalResults : PollSettles(c, r)) =>
                   /\ flow' = Null /\ pollTimers' = {}
                   /\ pollTimerRef' = Null /\ pollIntervalMs' = Null
             /\ (polls'[c] > polls[c]) => c \notin ended
             /\ (c \in ended') => \A x \in pollTimers' : x.code # c]_vars

\* The flow was polling when expired_token came for its device code, with
\* another request of that code still in flight: the flow is gone, no
\* interval is left.
C29_Witness ==
    /\ gh.op = "result" /\ gh.result = "expired_token"
    /\ gh.toasts # <<>>
    /\ gh.code \in ended /\ polls[gh.code] >= 1
    /\ flow = Null /\ pollTimers = {} /\ pollTimerRef = Null

\* C30. No effect of stale poll responses: when the flow of a device code
\* has ended (cancelled, ended by disconnect, or finished by a terminal poll
\* result), a poll request of that code that settles afterwards changes
\* nothing: no toast, no forced status refresh, the flow, the period, the
\* intervals and the store's status as they were.
C30_StaleIgnored ==
    [][\A c \in 1..MaxFlows, r \in PollResults :
          (flow # c /\ (flow = Null \/ c \in ended) /\ PollSettles(c, r)) =>
             /\ gh'.toasts = <<>> /\ gh'.refreshes = 0
             /\ UNCHANGED <<flow, pollIntervalMs, pollTimerRef, pollTimers,
                            connected>>]_vars

====
